---- MODULE Spec2Model ----
(***************************************************************************)
(* Model of the market-insights pipeline of app.py: the id heuristic       *)
(* extract_adzuna_job_id, the salary aggregator get_salary_histogram, the  *)
(* token cache, the skill extractor, the narrative summarizer and the      *)
(* orchestrator fetch_market_insights.                                     *)
(*                                                                         *)
(* Python values are tagged records: None is [none |-> TRUE], a string is  *)
(* [str |-> <<characters>>], a number is [num |-> n], a list is            *)
(* [list |-> <<...>>]; a JSON object (dict) is a record of its keys.       *)
(***************************************************************************)
EXTENDS Integers, Sequences, FiniteSets, TLC

VARIABLES
    env,                    \* which credentials os.getenv returned (module globals)
    query,                  \* what / where / country of the request
    pc,                     \* position of the request in fetch_market_insights
    response,               \* outcome of the search request
    adzuna_data,            \* parsed body of the search response
    total_jobs,
    job_listings,
    salary_data,
    access_token,           \* local of get_lightcast_skills
    normalized_title_id,    \* local of get_lightcast_skills
    common_skills,
    ai_summary_html,
    lightcast_token_cache,  \* process-wide token slot
    now,                    \* time.time()
    flashes,                \* messages recorded with flash()
    calls,                  \* external endpoints requested, in order
    invoked,                \* enrichment functions called, in order, with what
                            \* went in and what came back
    result,                 \* what fetch_market_insights returned
    arg,                    \* input of the function under study (function specs)
    ret,                    \* its return value
    frames,                 \* get_lightcast_token: the locals of each thread's call
    issued_expiry,          \* history: expiry the exchange of the cached token asked for
    SavedJob                \* the saved_job table: committed rows, primary-key sequence

vars == <<env, query, pc, response, adzuna_data, total_jobs, job_listings, salary_data,
          access_token, normalized_title_id, common_skills, ai_summary_html,
          lightcast_token_cache, now, flashes, calls, invoked, result, arg, ret,
          frames, issued_expiry, SavedJob>>

orchVars == <<env, query, pc, response, adzuna_data, total_jobs, job_listings, salary_data,
              access_token, normalized_title_id, common_skills, ai_summary_html,
              lightcast_token_cache, now, flashes, calls, invoked, result>>

fnVars == <<arg, ret, frames, issued_expiry, SavedJob>>

-----------------------------------------------------------------------------
(* Bounds of the model *)

MaxSegs == 2        \* path segments of a redirect URL
MaxParams == 2      \* query parameters of a redirect URL
MaxBuckets == 2     \* buckets of a salary histogram
MaxCount == 2       \* count of one bucket
MaxResults == 2     \* results of one search response

-----------------------------------------------------------------------------
(* Python values *)

None == [none |-> TRUE]

Pending == [pending |-> TRUE]

Str(s) == [str |-> s]

Num(n) == [num |-> n]

List(l) == [list |-> l]

EmptyDict == <<>>

Tags == {"none", "pending", "str", "num", "list", "raised"}

IsDict(v) == DOMAIN v \cap Tags = {}

IsStr(v) == "str" \in DOMAIN v

\* Python truth value of v ("if v:", "not v")
Truthy(v) ==
    IF v = None THEN FALSE
    ELSE IF "str" \in DOMAIN v THEN Len(v.str) > 0
    ELSE IF "num" \in DOMAIN v THEN v.num # 0
    ELSE IF "list" \in DOMAIN v THEN Len(v.list) > 0
    ELSE DOMAIN v # {}

\* dict.get(k, default)
Get(d, k, default) == IF k \in DOMAIN d THEN d[k] ELSE default

SeqsUpTo(S, n) == UNION {[1..k -> S] : k \in 0..n}

-----------------------------------------------------------------------------
(* extract_adzuna_job_id: app.py 357-376.  A URL string is given by the    *)
(* components urlparse splits it into: netloc, path (characters) and query *)
(* (the name=value pairs between the & signs).                             *)

AlnumChars == {"a", "b", "c", "d", "e", "1", "2", "3", "4", "5", "6", "7", "8"}

\* str.isalnum(): every character alphanumeric and at least one character
isalnum(s) == Len(s) > 0 /\ \A i \in 1..Len(s) : s[i] \in AlnumChars

RECURSIVE lstrip(_, _)
lstrip(s, chars) ==
    IF s # <<>> /\ Head(s) \in chars THEN lstrip(Tail(s), chars) ELSE s

RECURSIVE rstrip(_, _)
rstrip(s, chars) ==
    IF s # <<>> /\ s[Len(s)] \in chars
    THEN rstrip(SubSeq(s, 1, Len(s) - 1), chars) ELSE s

\* str.strip(chars)
strip(s, chars) == rstrip(lstrip(s, chars), chars)

\* str.strip('/')
strip_slash(s) == strip(s, {"/"})

\* str.split('/'): cur is the piece being read, always at least one piece
RECURSIVE split_from(_, _)
split_from(s, cur) ==
    IF s = <<>> THEN <<cur>>
    ELSE IF Head(s) = "/" THEN <<cur>> \o split_from(Tail(s), <<>>)
    ELSE split_from(Tail(s), Append(cur, Head(s)))

split_slash(s) == split_from(s, <<>>)

\* the non-blank values of parameter name, in order of appearance
RECURSIVE qs_values(_, _)
qs_values(q, name) ==
    IF q = <<>> THEN <<>>
    ELSE IF Head(q).name = name /\ Head(q).value # <<>>
         THEN <<Head(q).value>> \o qs_values(Tail(q), name)
         ELSE qs_values(Tail(q), name)

\* urllib.parse.parse_qs: name -> list of values; blank values are dropped
parse_qs(q) ==
    LET names == {q[i].name : i \in {j \in 1..Len(q) : q[j].value # <<>>}}
    IN  [n \in names |-> qs_values(q, n)]

\* line 366: potential_id.isalnum() and len(potential_id) > 5
IsPathId(potential_id) == isalnum(potential_id) /\ Len(potential_id) > 5

QueryIdJobIdFirst(query_params) ==
    IF "jobId" \in DOMAIN query_params THEN Str(query_params["jobId"][1])
    ELSE IF "aid" \in DOMAIN query_params THEN Str(query_params["aid"][1])
    ELSE IF "id" \in DOMAIN query_params THEN Str(query_params["id"][1])
    ELSE None

\* lines 369-373: aid, then jobId, then id, else None
QueryId(query_params) ==
    IF "aid" \in DOMAIN query_params THEN Str(query_params["aid"][1])
    ELSE IF "jobId" \in DOMAIN query_params THEN Str(query_params["jobId"][1])
    ELSE IF "id" \in DOMAIN query_params THEN Str(query_params["id"][1])
    ELSE None

\* the empty string as a URL
IsEmptyUrl(u) == u.netloc = "" /\ u.path = <<>> /\ u.query = <<>>

extract_adzuna_job_id(url) ==
    IF url = None THEN None
    ELSE IF ~IsStr(url) THEN None            \* urlparse raises, caught at 374
    ELSE IF IsEmptyUrl(url.str) THEN None    \* not url
    ELSE LET parsed_url == url.str
             path_parts == split_slash(strip_slash(parsed_url.path))
             potential_id == path_parts[Len(path_parts)]
         IN  IF Len(path_parts) > 0 /\ IsPathId(potential_id)
             THEN Str(potential_id)
             ELSE QueryId(parse_qs(parsed_url.query))

-----------------------------------------------------------------------------
(* Redirect URLs the id heuristic is studied on *)

Segments ==
    { <<>>,
      <<"a", "d">>,
      <<"a", "b", "c", "1", "2">>,
      <<"a", "b", "c", "1", "2", "3">>,
      <<"a", "b", "-", "1", "2", "3", "4">> }

RECURSIVE JoinPath(_)
JoinPath(segs) ==
    IF segs = <<>> THEN <<>> ELSE <<"/">> \o Head(segs) \o JoinPath(Tail(segs))

Paths == {JoinPath(segs) : segs \in SeqsUpTo(Segments, MaxSegs)}

ParamNames == {"aid", "jobId", "id", "ref"}

ParamValues == {<<>>, <<"7">>, <<"8">>}

Queries == SeqsUpTo([name : ParamNames, value : ParamValues], MaxParams)

Urls ==
    {None, Num(7), Str([netloc |-> "", path |-> <<>>, query |-> <<>>])}
    \cup {Str([netloc |-> "adzuna", path |-> p, query |-> q]) : p \in Paths, q \in Queries}

-----------------------------------------------------------------------------
(* Module globals read from the environment: app.py 43-51.  TRUE when      *)
(* os.getenv returned a non-empty value.                                   *)

Envs ==
    [ADZUNA_APP_ID : BOOLEAN, ADZUNA_APP_KEY : BOOLEAN,
     AZURE_AI_ENDPOINT : BOOLEAN, AZURE_AI_KEY : BOOLEAN,
     LIGHTCAST_CLIENT_ID : BOOLEAN, LIGHTCAST_CLIENT_SECRET : BOOLEAN]

AllConfigured ==
    [ADZUNA_APP_ID |-> TRUE, ADZUNA_APP_KEY |-> TRUE,
     AZURE_AI_ENDPOINT |-> TRUE, AZURE_AI_KEY |-> TRUE,
     LIGHTCAST_CLIENT_ID |-> TRUE, LIGHTCAST_CLIENT_SECRET |-> TRUE]

-----------------------------------------------------------------------------
(* The orchestrator's variables, at rest while a single function is studied *)

OrchIdle ==
    /\ query = EmptyDict
    /\ pc = "Idle"
    /\ response = None
    /\ adzuna_data = None
    /\ total_jobs = Num(0)
    /\ job_listings = <<>>
    /\ salary_data = None
    /\ access_token = None
    /\ normalized_title_id = None
    /\ common_skills = None
    /\ ai_summary_html = None
    /\ lightcast_token_cache = [access_token |-> None, expires_at |-> 0]
    /\ now = 0
    /\ flashes = <<>>
    /\ calls = <<>>
    /\ invoked = <<>>
    /\ result = Pending

\* the saved_job table as db.create_all() leaves it: no row, and the sequence
\* of the primary key at its start
EmptyTable == [rows |-> {}, id_seq |-> 1]

\* no thread is inside get_lightcast_token on its own, and no job is saved
NoThreads ==
    /\ frames = <<>>
    /\ issued_expiry = None
    /\ SavedJob = EmptyTable

-----------------------------------------------------------------------------
(* Specification of extract_adzuna_job_id on its own *)

InitExtract ==
    /\ arg \in Urls
    /\ ret = Pending
    /\ env = AllConfigured
    /\ OrchIdle
    /\ NoThreads

ExtractCall ==
    /\ ret = Pending
    /\ ret' = extract_adzuna_job_id(arg)
    /\ UNCHANGED <<arg, frames, issued_expiry, SavedJob, orchVars>>

NextExtract == ExtractCall

SpecExtract == InitExtract /\ [][NextExtract]_vars

-----------------------------------------------------------------------------
(* C8 *)

\* the last path segment of path p: the last maximal run without "/"
LastSegments(p) ==
    { SubSeq(p, i, j) : <<i, j>> \in
        { ij \in (1..Len(p)) \X (1..Len(p)) :
            /\ ij[1] <= ij[2]
            /\ \A k \in ij[1]..ij[2] : p[k] # "/"
            /\ (ij[1] = 1 \/ p[ij[1] - 1] = "/")
            /\ \A k \in (ij[2] + 1)..Len(p) : p[k] = "/" } }

\* parameter name is present in query q with a non-blank value
ParamPresent(q, name) == \E k \in 1..Len(q) : q[k].name = name /\ q[k].value # <<>>

\* the first non-blank value of parameter name in query q
ParamFirst(q, name) ==
    LET first == CHOOSE k \in 1..Len(q) :
                    /\ q[k].name = name /\ q[k].value # <<>>
                    /\ \A m \in 1..(k - 1) : ~(q[m].name = name /\ q[m].value # <<>>)
    IN  q[first].value

\* C8: extract_adzuna_job_id returns the last path segment of the redirect
\* URL when that segment is alphanumeric and longer than 5 characters;
\* otherwise the value of the first present parameter among aid, jobId, id
\* (in that priority; present = carrying a non-blank value); otherwise None.
\* An absent or empty URL yields None.
C8_ExtractOrder ==
    (ret # Pending /\ (arg = None \/ IsStr(arg))) =>
        IF arg = None \/ IsEmptyUrl(arg.str) THEN ret = None
        ELSE LET p == arg.str.path
                 q == arg.str.query
                 ids == {s \in LastSegments(p) :
                            Len(s) > 5 /\ \A i \in 1..Len(s) : s[i] \in AlnumChars}
             IN  IF ids # {} THEN \A s \in ids : ret = Str(s)
                 ELSE IF ParamPresent(q, "aid") THEN ret = Str(ParamFirst(q, "aid"))
                 ELSE IF ParamPresent(q, "jobId") THEN ret = Str(ParamFirst(q, "jobId"))
                 ELSE IF ParamPresent(q, "id") THEN ret = Str(ParamFirst(q, "id"))
                 ELSE ret = None

\* a five-character last segment is refused and jobId wins over an earlier id
C8_Witness ==
    /\ arg = Str([netloc |-> "adzuna",
                  path |-> <<"/", "a", "d", "/", "a", "b", "c", "1", "2">>,
                  query |-> <<[name |-> "id", value |-> <<"7">>],
                              [name |-> "jobId", value |-> <<"8">>]>>])
    /\ ret = Str(<<"8">>)

-----------------------------------------------------------------------------
(* Outcomes of requests.get / requests.post followed by raise_for_status   *)
(* and response.json(): an exception of the requests library, or a body.   *)

Timeout == [kind |-> "Timeout"]

HTTPError(status) == [kind |-> "HTTPError", status_code |-> status]

ConnectionError == [kind |-> "ConnectionError"]

Ok(body) == [kind |-> "ok", body |-> body]

HttpStatuses == {404, 500}

Failures == {Timeout, ConnectionError} \cup {HTTPError(st) : st \in HttpStatuses}

-----------------------------------------------------------------------------
(* get_salary_histogram: app.py 237-277.  The histogram is the sequence of *)
(* the JSON object's items, [key, count], keys distinct.                   *)

Digits == {"0", "1", "2", "3", "4", "5", "6", "7", "8", "9"}

DigitValue ==
    ("0" :> 0) @@ ("1" :> 1) @@ ("2" :> 2) @@ ("3" :> 3) @@ ("4" :> 4) @@
    ("5" :> 5) @@ ("6" :> 6) @@ ("7" :> 7) @@ ("8" :> 8) @@ ("9" :> 9)

\* float(salary_point) succeeds (decimal digit strings)
ParsesAsFloat(s) == Len(s) > 0 /\ \A i \in 1..Len(s) : s[i] \in Digits

RECURSIVE float(_)
float(s) ==
    IF s = <<>> THEN 0
    ELSE 10 * float(SubSeq(s, 1, Len(s) - 1)) + DigitValue[s[Len(s)]]

RoundHalfUp(n, d) ==
    LET q == n \div d
        r == n % d
    IN  IF 2 * r < d THEN q ELSE q + 1

\* round(n / d) for d > 0, n >= 0: Python rounds a half to the even neighbour
round(n, d) ==
    LET q == n \div d
        r == n % d
    IN  IF 2 * r < d THEN q
        ELSE IF 2 * r > d THEN q + 1
        ELSE IF q % 2 = 0 THEN q ELSE q + 1

AddBucketCountFirst(acc, bucket) ==
    IF ParsesAsFloat(bucket.key)
    THEN [total_salary |-> acc.total_salary + float(bucket.key) * bucket.count,
          total_count |-> acc.total_count + bucket.count]
    ELSE [total_salary |-> acc.total_salary,
          total_count |-> acc.total_count + bucket.count]

\* lines 256-260: one pass of the loop body; a ValueError skips the bucket
AddBucket(acc, bucket) ==
    IF ParsesAsFloat(bucket.key)
    THEN [total_salary |-> acc.total_salary + float(bucket.key) * bucket.count,
          total_count |-> acc.total_count + bucket.count]
    ELSE acc

\* lines 253-260: the loop over data['histogram'].items()
RECURSIVE Totals(_)
Totals(items) ==
    IF items = <<>> THEN [total_salary |-> 0, total_count |-> 0]
    ELSE AddBucket(Totals(SubSeq(items, 1, Len(items) - 1)), items[Len(items)])

AverageOrZero(t) ==
    IF t.total_count > 0 THEN Num(round(t.total_salary, t.total_count)) ELSE Num(0)

\* line 261
Average(t) ==
    IF t.total_count > 0 THEN Num(round(t.total_salary, t.total_count)) ELSE None

AdzunaConfigured == env.ADZUNA_APP_ID /\ env.ADZUNA_APP_KEY

\* resp: the outcome of the histogram request
get_salary_histogram(resp) ==
    IF ~AdzunaConfigured THEN None
    ELSE IF resp.kind # "ok" THEN None
    ELSE LET data == resp.body
         IN  IF "histogram" \in DOMAIN data /\ Len(data.histogram) > 0
             THEN [histogram |-> data.histogram,
                   average |-> Average(Totals(data.histogram))]
             ELSE None

-----------------------------------------------------------------------------
(* Histogram responses the salary aggregator is studied on *)


BucketKeys ==
    { <<"1", "0">>, <<"2", "0">>, <<"2", "5">>,
      <<"3", "0", "0", "0", "0">>, <<"4", "0", "0", "0", "0">>,
      <<"n", "/", "a">>, <<>> }

Buckets == [key : BucketKeys, count : 0..MaxCount]

Histograms ==
    {h \in SeqsUpTo(Buckets, MaxBuckets) :
        \A i, j \in 1..Len(h) : i # j => h[i].key # h[j].key}

HistogramBodies ==
    {EmptyDict, [count |-> Num(3)]} \cup {[histogram |-> h] : h \in Histograms}

HistogramResponses == Failures \cup {Ok(b) : b \in HistogramBodies}

-----------------------------------------------------------------------------
(* Specification of get_salary_histogram on its own *)

InitSalary ==
    /\ arg \in HistogramResponses
    /\ ret = Pending
    /\ env \in {e \in Envs : /\ e.AZURE_AI_ENDPOINT /\ e.AZURE_AI_KEY
                             /\ e.LIGHTCAST_CLIENT_ID /\ e.LIGHTCAST_CLIENT_SECRET}
    /\ OrchIdle
    /\ NoThreads

SalaryCall ==
    /\ ret = Pending
    /\ ret' = get_salary_histogram(arg)
    /\ UNCHANGED <<arg, frames, issued_expiry, SavedJob, orchVars>>

NextSalary == SalaryCall

SpecSalary == InitSalary /\ [][NextSalary]_vars

-----------------------------------------------------------------------------
(* C9, C10 *)

NumericKeys(h) == {float(h[i].key) : i \in {j \in 1..Len(h) : ParsesAsFloat(h[j].key)}}

RECURSIVE NumericTotalCount(_)
NumericTotalCount(h) ==
    IF h = <<>> THEN 0
    ELSE (IF ParsesAsFloat(Head(h).key) THEN Head(h).count ELSE 0)
         + NumericTotalCount(Tail(h))

MinOf(S) == CHOOSE x \in S : \A y \in S : x <= y

MaxOf(S) == CHOOSE x \in S : \A y \in S : x >= y

\* a histogram came back from the provider and the call has returned
SalaryReturned ==
    /\ ret # Pending
    /\ AdzunaConfigured
    /\ arg.kind = "ok"
    /\ "histogram" \in DOMAIN arg.body
    /\ Len(arg.body.histogram) > 0

AverageWithin(h) ==
    /\ ret # None
    /\ ret.average # None
    /\ MinOf(NumericKeys(h)) <= ret.average.num
    /\ ret.average.num <= MaxOf(NumericKeys(h))

\* C9 as stated: for every histogram with at least one numeric bucket key the
\* average lies within [min numeric bucket key, max numeric bucket key].
C9_AverageWithinKeys ==
    (SalaryReturned /\ NumericKeys(arg.body.histogram) # {})
        => AverageWithin(arg.body.histogram)

\* C9 amended: for every histogram with at least one numeric bucket key whose
\* numeric buckets' counts sum to more than zero, the average lies within
\* [min numeric bucket key, max numeric bucket key].
C9_AverageWithinKeysPositive ==
    (/\ SalaryReturned
     /\ NumericKeys(arg.body.histogram) # {}
     /\ NumericTotalCount(arg.body.histogram) > 0)
        => AverageWithin(arg.body.histogram)

\* {"10": 1, "n/a": 2}: the non-numeric bucket stays out of the mean
C9_Witness ==
    /\ SalaryReturned
    /\ arg.body.histogram = <<[key |-> <<"1", "0">>, count |-> 1],
                              [key |-> <<"n", "/", "a">>, count |-> 2]>>
    /\ ret.average = Num(10)

\* C10: for every non-empty histogram with no numeric bucket key,
\* get_salary_histogram returns a salary insight that carries the histogram
\* and the average None (not zero, not an error, not an absent insight).
C10_NoNumericKeyAverageAbsent ==
    (SalaryReturned /\ NumericKeys(arg.body.histogram) = {})
        => ret = [histogram |-> arg.body.histogram, average |-> None]

C10_Witness ==
    /\ SalaryReturned
    /\ arg.body.histogram = <<[key |-> <<"n", "/", "a">>, count |-> 2]>>
    /\ ret = [histogram |-> arg.body.histogram, average |-> None]

-----------------------------------------------------------------------------
(* fetch_market_insights: app.py 380-479.  Inputs of one request.          *)

Nurse == <<"n", "u", "r", "s", "e">>

Boston == <<"B", "o", "s", "t", "o", "n">>

Acme == <<"A", "c", "m", "e">>

NotAvailable == <<"N", "/", "A">>

NoDescription == <<"N", "o", " ", "d", "e", "s", "c", "r", "i", "p", "t", "i", "o", "n">>

QueryInputs ==
    [what : {Str(<<>>), Str(Nurse)},
     where : {Str(<<>>), Str(Boston)},
     country : {Str(<<>>), Str(<<"u", "s">>)}]

UrlPathId ==
    Str([netloc |-> "adzuna",
         path |-> <<"/", "a", "d", "/", "a", "b", "c", "1", "2", "3">>,
         query |-> <<>>])

UrlQueryId ==
    Str([netloc |-> "adzuna",
         path |-> <<"/", "a", "d">>,
         query |-> <<[name |-> "aid", value |-> <<"7">>]>>])

UrlNoId ==
    Str([netloc |-> "adzuna",
         path |-> <<"/", "a", "d">>,
         query |-> <<[name |-> "ref", value |-> <<"8">>]>>])

\* results of the search provider: complete, partial and malformed ones
Jobs ==
    { [redirect_url |-> UrlPathId, title |-> Str(Nurse),
       company |-> [display_name |-> Str(Acme)],
       location |-> [display_name |-> Str(Boston)],
       description |-> Str(<<"c", "a", "r", "e">>), created |-> Str(<<"1">>)],
      [redirect_url |-> UrlQueryId],
      [redirect_url |-> UrlNoId, title |-> Str(Nurse)],
      [title |-> Str(Nurse)],
      [redirect_url |-> UrlPathId, title |-> Str(Nurse), company |-> None],
      [redirect_url |-> UrlNoId, title |-> Str(Nurse), company |-> None],
      Str(Nurse) }

ProviderCount == Num(42)

\* line 464: job_listings[:10]
MaxSampleListings == 10

\* a page of one result more than the narrative's sample takes
LongResults ==
    [i \in 1..(MaxSampleListings + 1) |->
        [redirect_url |-> UrlPathId, title |-> Str(Nurse),
         created |-> Str(<<ToString(i)>>)]]

SearchBodies ==
    {List(<<>>), EmptyDict}
    \cup {[results |-> List(rs)] : rs \in SeqsUpTo(Jobs, MaxResults)}
    \cup {[count |-> ProviderCount, results |-> List(rs)] : rs \in SeqsUpTo(Jobs, MaxResults)}
    \cup {[count |-> ProviderCount, results |-> List(LongResults)]}

\* the body is not JSON: response.json() raises
InvalidJSON == [kind |-> "InvalidJSON"]

SearchResponses == Failures \cup {InvalidJSON} \cup {Ok(b) : b \in SearchBodies}

-----------------------------------------------------------------------------
(* Messages recorded with flash() *)

Flash(text) == [message |-> text, category |-> "error"]

MsgMissingCriteria == Flash("Missing search criteria.")

MsgNoCredentials == Flash("Adzuna API credentials not configured.")

MsgTimeout == Flash("Adzuna search request timed out. Please try again.")

MsgHTTPError(status) ==
    [message |-> "Adzuna API Error (status). Please check search terms or try again later.",
     status_code |-> status, category |-> "error"]

MsgConnection ==
    Flash("Could not connect to Adzuna. Please check your connection or try again later.")

MsgInternal ==
    Flash("An internal server error occurred while fetching job listings.")

-----------------------------------------------------------------------------
(* The search step: lines 412-449 *)

\* lines 425-433
BuildListing(job, adzuna_job_id) ==
    [adzuna_job_id |-> adzuna_job_id,
     title |-> Get(job, "title", None),
     company |-> Get(Get(job, "company", EmptyDict), "display_name", Str(NotAvailable)),
     location |-> Get(Get(job, "location", EmptyDict), "display_name", Str(NotAvailable)),
     description |-> Get(job, "description", Str(NoDescription)),
     url |-> Get(job, "redirect_url", None),
     created |-> Get(job, "created", None)]

\* the loop body raises (AttributeError): job has no .get, or, once an id was
\* extracted, company or location has no .get
JobRaises(job) ==
    \/ ~IsDict(job)
    \/ /\ Truthy(extract_adzuna_job_id(Get(job, "redirect_url", None)))
       /\ \/ ~IsDict(Get(job, "company", EmptyDict))
          \/ ~IsDict(Get(job, "location", EmptyDict))

KeepEveryJob(job) == TRUE

\* line 424: if adzuna_job_id
KeepJob(job) == Truthy(extract_adzuna_job_id(Get(job, "redirect_url", None)))

\* lines 421-435: the listings of the results that carry an id, in order
RECURSIVE Listings(_)
Listings(results) ==
    IF results = <<>> THEN <<>>
    ELSE LET job == Head(results)
         IN  (IF KeepJob(job)
              THEN <<BuildListing(job, extract_adzuna_job_id(Get(job, "redirect_url", None)))>>
              ELSE <<>>)
             \o Listings(Tail(results))

\* lines 419-435 raise on this body
SearchRaises(body) ==
    \/ ~IsDict(body)
    \/ LET results == Get(body, "results", List(<<>>)).list
       IN  \E i \in 1..Len(results) : JobRaises(results[i])

\* line 419
TotalJobs(body) == Get(body, "count", Num(0))

FatalFlashTwice(msg) ==
    /\ flashes' = Append(Append(flashes, msg), msg)
    /\ result' = None
    /\ pc' = "Fatal"

\* flash(...); return None
Fatal(msg) ==
    /\ flashes' = Append(flashes, msg)
    /\ result' = None
    /\ pc' = "Fatal"

ValidateNoCredentialCheck ==
    /\ pc = "Validating"
    /\ IF ~(Truthy(query.what) /\ Truthy(query.where) /\ Truthy(query.country))
       THEN Fatal(MsgMissingCriteria)
       ELSE /\ pc' = "SearchingJobs"
            /\ UNCHANGED <<flashes, result>>
    /\ UNCHANGED <<env, query, response, adzuna_data, total_jobs, job_listings,
                   salary_data, access_token, normalized_title_id, common_skills,
                   ai_summary_html, lightcast_token_cache, now, calls, invoked, fnVars>>

\* lines 385-391
Validate ==
    /\ pc = "Validating"
    /\ IF ~(Truthy(query.what) /\ Truthy(query.where) /\ Truthy(query.country))
       THEN Fatal(MsgMissingCriteria)
       ELSE IF ~AdzunaConfigured
       THEN Fatal(MsgNoCredentials)
       ELSE /\ pc' = "SearchingJobs"
            /\ UNCHANGED <<flashes, result>>
    /\ UNCHANGED <<env, query, response, adzuna_data, total_jobs, job_listings,
                   salary_data, access_token, normalized_title_id, common_skills,
                   ai_summary_html, lightcast_token_cache, now, calls, invoked, fnVars>>

\* the except clause that catches response.json() failing on a non-JSON body:
\* requests.exceptions.JSONDecodeError is a RequestException in recent
\* releases of the library (line 443) and a plain ValueError in older ones
\* (line 446)
InvalidJSONMessages == {MsgConnection, MsgInternal}

SearchContinueOnFailure(resp) ==
    IF resp.kind = "ok" /\ ~SearchRaises(resp.body)
    THEN /\ adzuna_data' = resp.body
         /\ total_jobs' = TotalJobs(resp.body)
         /\ job_listings' = Listings(Get(resp.body, "results", List(<<>>)).list)
         /\ pc' = "Salary"
         /\ UNCHANGED <<flashes, result>>
    ELSE /\ pc' = "Salary"
         /\ UNCHANGED <<adzuna_data, total_jobs, job_listings, flashes, result>>

\* lines 414-449, given the outcome resp of the search request
SearchOutcome(resp) ==
    IF resp.kind = "Timeout"
    THEN Fatal(MsgTimeout) /\ UNCHANGED <<adzuna_data, total_jobs, job_listings>>
    ELSE IF resp.kind = "HTTPError"
    THEN Fatal(MsgHTTPError(resp.status_code))
         /\ UNCHANGED <<adzuna_data, total_jobs, job_listings>>
    ELSE IF resp.kind = "ConnectionError"
    THEN Fatal(MsgConnection) /\ UNCHANGED <<adzuna_data, total_jobs, job_listings>>
    ELSE IF resp.kind = "InvalidJSON"
    THEN /\ \E msg \in InvalidJSONMessages : Fatal(msg)
         /\ UNCHANGED <<adzuna_data, total_jobs, job_listings>>
    ELSE IF SearchRaises(resp.body)
    THEN Fatal(MsgInternal) /\ UNCHANGED <<adzuna_data, total_jobs, job_listings>>
    ELSE /\ adzuna_data' = resp.body
         /\ total_jobs' = TotalJobs(resp.body)
         /\ job_listings' = Listings(Get(resp.body, "results", List(<<>>)).list)
         /\ pc' = "Salary"
         /\ UNCHANGED <<flashes, result>>

SearchJobs ==
    /\ pc = "SearchingJobs"
    /\ \E resp \in SearchResponses :
        /\ response' = resp
        /\ calls' = Append(calls, "search")
        /\ SearchOutcome(resp)
    /\ UNCHANGED <<env, query, salary_data, access_token, normalized_title_id,
                   common_skills, ai_summary_html, lightcast_token_cache, now, invoked, fnVars>>

-----------------------------------------------------------------------------
(* The salary step: lines 451-453 *)

OrchHistogramBodies ==
    { EmptyDict,
      [histogram |-> <<[key |-> <<"3", "0", "0", "0", "0">>, count |-> 2],
                       [key |-> <<"4", "0", "0", "0", "0">>, count |-> 2]>>],
      [histogram |-> <<[key |-> <<"n", "/", "a">>, count |-> 1]>>] }

OrchHistogramResponses == Failures \cup {Ok(b) : b \in OrchHistogramBodies}

SalaryAbortsOnFailure ==
    /\ pc = "Salary"
    /\ \E resp \in OrchHistogramResponses :
        /\ salary_data' = get_salary_histogram(resp)
        /\ IF salary_data' = None
           THEN pc' = "Fatal" /\ result' = None
           ELSE pc' = "Token" /\ UNCHANGED result
    /\ calls' = IF AdzunaConfigured THEN Append(calls, "histogram") ELSE calls
    /\ invoked' = Append(invoked, [fn |-> "get_salary_histogram", ret |-> salary_data'])
    /\ UNCHANGED <<env, query, response, adzuna_data, total_jobs, job_listings,
                   access_token, normalized_title_id, common_skills, ai_summary_html,
                   lightcast_token_cache, now, flashes, fnVars>>

Salary ==
    /\ pc = "Salary"
    /\ \E resp \in OrchHistogramResponses :
        salary_data' = get_salary_histogram(resp)
    /\ calls' = IF AdzunaConfigured THEN Append(calls, "histogram") ELSE calls
    /\ invoked' = Append(invoked, [fn |-> "get_salary_histogram", ret |-> salary_data'])
    /\ pc' = "Token"
    /\ UNCHANGED <<env, query, response, adzuna_data, total_jobs, job_listings,
                   access_token, normalized_title_id, common_skills, ai_summary_html,
                   lightcast_token_cache, now, flashes, result, fnVars>>

-----------------------------------------------------------------------------
(* get_lightcast_token: lines 119-165 *)

TokenMargin == 60

DefaultExpiresIn == 3600

TokA == <<"t", "o", "k", "A">>

TokenBodies ==
    { EmptyDict,
      [access_token |-> Str(TokA)],
      [access_token |-> Str(TokA), expires_in |-> Str(<<"s", "o", "o", "n">>)] }

TokenResponses == Failures \cup {Ok(b) : b \in TokenBodies}

LightcastConfigured == env.LIGHTCAST_CLIENT_ID /\ env.LIGHTCAST_CLIENT_SECRET

\* line 125
CacheValid(cache, current_time) ==
    Truthy(cache.access_token) /\ cache.expires_at > current_time + TokenMargin

IsNum(v) == "num" \in DOMAIN v

\* lines 144-165: the cache slot after the exchange answered resp.  Line 155
\* stores the token before line 156 adds current_time and expires_in, which
\* raises when expires_in is not a number.
CacheAfterExchange(cache, current_time, resp) ==
    IF resp.kind # "ok" \/ ~IsDict(resp.body) THEN cache
    ELSE LET token == Get(resp.body, "access_token", None)
             expires_in == Get(resp.body, "expires_in", Num(DefaultExpiresIn))
         IN  IF ~Truthy(token) THEN cache
             ELSE IF ~IsNum(expires_in)
             THEN [access_token |-> token, expires_at |-> cache.expires_at]
             ELSE [access_token |-> token,
                   expires_at |-> current_time + expires_in.num]

\* lines 144-165: what get_lightcast_token returns after the exchange
TokenAfterExchange(resp) ==
    IF resp.kind # "ok" \/ ~IsDict(resp.body) THEN None
    ELSE LET token == Get(resp.body, "access_token", None)
             expires_in == Get(resp.body, "expires_in", Num(DefaultExpiresIn))
         IN  IF ~Truthy(token) THEN None
             ELSE IF ~IsNum(expires_in) THEN None
             ELSE token

-----------------------------------------------------------------------------
(* get_lightcast_skills: lines 168-233 *)

MaxSkills == 15

TitleId == <<"E", "T", "1">>

NormalizeBodies ==
    { EmptyDict,
      [data |-> List(<<>>)],
      [data |-> List(<<[id |-> Str(TitleId), name |-> Str(Nurse)]>>)],
      [data |-> List(<<[name |-> Str(Nurse)]>>)] }

NormalizeResponses == Failures \cup {Ok(b) : b \in NormalizeBodies}

SkillSQL == <<"S", "Q", "L">>

SkillCare == <<"C", "a", "r", "e">>

DetailsBodies ==
    { EmptyDict,
      [data |-> [mapping |-> EmptyDict]],
      [data |-> [mapping |-> [skills |-> List(<<>>)]]],
      [data |-> [mapping |-> [skills |->
          List(<<[name |-> Str(SkillSQL)], [id |-> Str(TitleId)],
                 [name |-> Str(SkillCare)]>>)]]] }

DetailsResponses == Failures \cup {Ok(b) : b \in DetailsBodies}

TakeLast(s, n) == SubSeq(s, IF Len(s) < n THEN 1 ELSE Len(s) - n + 1, Len(s))

\* a slice [:n]
Take(s, n) == SubSeq(s, 1, IF Len(s) < n THEN Len(s) ELSE n)

\* line 221: the names of the skills that carry one
RECURSIVE SkillNames(_)
SkillNames(skills) ==
    IF skills = <<>> THEN <<>>
    ELSE (IF Truthy(Get(Head(skills), "name", None))
          THEN <<Get(Head(skills), "name", None)>> ELSE <<>>)
         \o SkillNames(Tail(skills))

\* lines 168-177 with get_lightcast_token inlined; now is the instant
\* time.time() returns
Token ==
    /\ pc = "Token"
    /\ IF ~Truthy(query.what)
       THEN /\ access_token' = None
            /\ UNCHANGED <<lightcast_token_cache, calls>>
       ELSE IF CacheValid(lightcast_token_cache, now)
       THEN /\ access_token' = lightcast_token_cache.access_token
            /\ UNCHANGED <<lightcast_token_cache, calls>>
       ELSE IF ~LightcastConfigured
       THEN /\ access_token' = None
            /\ UNCHANGED <<lightcast_token_cache, calls>>
       ELSE \E resp \in TokenResponses :
            /\ calls' = Append(calls, "token")
            /\ lightcast_token_cache' = CacheAfterExchange(lightcast_token_cache, now, resp)
            /\ access_token' = TokenAfterExchange(resp)
    /\ IF Truthy(access_token')
       THEN pc' = "Normalize" /\ UNCHANGED common_skills
       ELSE pc' = "Narrative" /\ common_skills' = None
    /\ invoked' = Append(invoked, [fn |-> "get_lightcast_skills"])
    /\ UNCHANGED <<env, query, response, adzuna_data, total_jobs, job_listings,
                   salary_data, normalized_title_id, ai_summary_html, now, flashes,
                   result, fnVars>>

\* lines 187-208: the title id, or None when the function returns None
NormalizedId(resp) ==
    IF resp.kind # "ok" THEN None
    ELSE LET normalize_data == resp.body
         IN  IF /\ Truthy(normalize_data)
                /\ "data" \in DOMAIN normalize_data
                /\ Truthy(normalize_data.data)
             THEN Get(normalize_data.data.list[1], "id", None)
             ELSE None

Normalize ==
    /\ pc = "Normalize"
    /\ \E resp \in NormalizeResponses :
        normalized_title_id' = NormalizedId(resp)
    /\ calls' = Append(calls, "normalize")
    /\ IF Truthy(normalized_title_id')
       THEN pc' = "Details" /\ UNCHANGED common_skills
       ELSE pc' = "Narrative" /\ common_skills' = None
    /\ UNCHANGED <<env, query, response, adzuna_data, total_jobs, job_listings,
                   salary_data, access_token, ai_summary_html, lightcast_token_cache,
                   now, flashes, result, invoked, fnVars>>

\* lines 215-233
SkillsOf(resp) ==
    IF resp.kind # "ok" THEN None
    ELSE LET details_data == resp.body
         IN  IF /\ Truthy(details_data)
                /\ "data" \in DOMAIN details_data
                /\ "mapping" \in DOMAIN details_data.data
                /\ "skills" \in DOMAIN details_data.data.mapping
             THEN List(Take(SkillNames(details_data.data.mapping.skills.list), MaxSkills))
             ELSE None

DetailsRetriesOnFailure ==
    /\ pc = "Details"
    /\ \E resp \in DetailsResponses :
        /\ common_skills' = SkillsOf(resp)
        /\ calls' = IF resp.kind = "ok" THEN Append(calls, "details")
                    ELSE Append(Append(calls, "details"), "details")
    /\ pc' = "Narrative"
    /\ UNCHANGED <<env, query, response, adzuna_data, total_jobs, job_listings,
                   salary_data, access_token, normalized_title_id, ai_summary_html,
                   lightcast_token_cache, now, flashes, result, invoked, fnVars>>

\* lines 210-233: the request for the title's detail and what becomes of it
Details ==
    /\ pc = "Details"
    /\ \E resp \in DetailsResponses :
        common_skills' = SkillsOf(resp)
    /\ calls' = Append(calls, "details")
    /\ pc' = "Narrative"
    /\ UNCHANGED <<env, query, response, adzuna_data, total_jobs, job_listings,
                   salary_data, access_token, normalized_title_id, ai_summary_html,
                   lightcast_token_cache, now, flashes, result, invoked, fnVars>>

-----------------------------------------------------------------------------
(* get_ai_summary: lines 280-354, and the assembly, lines 463-479 *)

MaxSampleTitles == 7

AzureConfigured == env.AZURE_AI_ENDPOINT /\ env.AZURE_AI_KEY

Content == <<" ", "o", "k", " ">>

CompletionBodies ==
    { EmptyDict,
      [choices |-> List(<<>>)],
      [choices |-> List(<<[message |-> None]>>)],
      [choices |-> List(<<[message |-> [content |-> Str(Content)]]>>)],
      [choices |-> List(<<[message |-> [content |-> Str(<<" ">>)]]>>)] }

CompletionResponses == Failures \cup {Ok(b) : b \in CompletionBodies}

\* line 286
SampleTitles(job_listings_sample) ==
    [i \in 1..Len(Take(job_listings_sample, MaxSampleTitles)) |->
        job_listings_sample[i].title]

\* line 308: ', '.join(sample_titles) raises TypeError on an item that is no
\* string; the prompt is built outside the try block of line 328
JoinRaises(sample_titles) ==
    \E i \in 1..Len(sample_titles) : ~IsStr(sample_titles[i])

\* line 288: job_listings_sample[:5]
MaxSampleDescriptions == 5

\* line 291
MaxDescLength == 1000

Ellipsis == <<".", ".", ".">>

\* sep.join(strings)
RECURSIVE Join(_, _)
Join(strings, sep) ==
    IF strings = <<>> THEN <<>>
    ELSE IF Len(strings) = 1 THEN Head(strings)
    ELSE Head(strings) \o sep \o Join(Tail(strings), sep)

\* lines 287-290: the descriptions that are strings, of the first five
\* listings, joined by a blank
JoinedDescriptions(job_listings_sample) ==
    LET first == Take(job_listings_sample, MaxSampleDescriptions)
        kept == SelectSeq(first, LAMBDA job : IsStr(Get(job, "description", None)))
    IN  Join([i \in 1..Len(kept) |-> kept[i].description.str], <<" ">>)

TruncateAtThreshold(sample_descriptions) ==
    IF Len(sample_descriptions) >= MaxDescLength
    THEN SubSeq(sample_descriptions, 1, MaxDescLength) \o Ellipsis
    ELSE sample_descriptions

\* lines 292-293
Truncate(sample_descriptions) ==
    IF Len(sample_descriptions) > MaxDescLength
    THEN SubSeq(sample_descriptions, 1, MaxDescLength) \o Ellipsis
    ELSE sample_descriptions

\* line 309: {sample_descriptions if sample_descriptions else 'N/A'}
EmbeddedDescriptions(sample_descriptions) ==
    IF sample_descriptions # <<>> THEN sample_descriptions ELSE NotAvailable

\* the decimal digits of n >= 0
RECURSIVE DigitsOf(_)
DigitsOf(n) ==
    IF n < 10 THEN <<ToString(n)>>
    ELSE DigitsOf(n \div 10) \o <<ToString(n % 10)>>

\* format(n, ","): a comma before every group of three digits
RECURSIVE Grouped(_)
Grouped(digits) ==
    IF Len(digits) <= 3 THEN digits
    ELSE Grouped(SubSeq(digits, 1, Len(digits) - 3))
         \o <<",">> \o SubSeq(digits, Len(digits) - 2, Len(digits))

PhraseNotAvailable == [text |-> "Not available"]

PhraseDistribution ==
    [text |-> "Distribution data available, but average could not be calculated."]

\* line 297: f"approximately {salary_data['average']:,} (currency based on country)"
PhraseAverage(average) ==
    [text |-> "approximately {average:,} (currency based on country)",
     average |-> Grouped(DigitsOf(average.num))]

\* a number is falsy when it is zero
TruthyValue(v) == IF IsNum(v) THEN v.num # 0 ELSE Truthy(v)

\* lines 295-299; insight is the argument salary_data
SalaryInfo(insight) ==
    IF insight # None /\ TruthyValue(Get(insight, "average", None))
    THEN PhraseAverage(insight.average)
    ELSE IF insight # None /\ Get(insight, "histogram", <<>>) # <<>>
    THEN PhraseDistribution
    ELSE PhraseNotAvailable

\* lines 282-315: what get_ai_summary puts into the prompt, None when it
\* returns before it builds one
PromptOf(job_listings_sample, insight) ==
    IF ~AzureConfigured THEN None
    ELSE LET sample_descriptions == Truncate(JoinedDescriptions(job_listings_sample))
         IN  [sample_titles |-> SampleTitles(job_listings_sample),
              sample_descriptions |-> Str(sample_descriptions),
              embedded_descriptions |-> Str(EmbeddedDescriptions(sample_descriptions)),
              salary_info |-> SalaryInfo(insight)]

\* lines 329-354
SummaryOf(resp) ==
    IF resp.kind # "ok" THEN None
    ELSE LET response_data == resp.body
         IN  IF "choices" \in DOMAIN response_data /\ Len(response_data.choices.list) > 0
             THEN LET message == Get(response_data.choices.list[1], "message", None)
                  IN  IF Truthy(message) /\ "content" \in DOMAIN message
                      THEN Str(strip(message.content.str, {" "}))
                      ELSE None
             ELSE None

\* lines 465-467: markdown.markdown wrapped in Markup
Markup(ai_summary_raw) == [markup |-> ai_summary_raw.str]

SummaryHtml(ai_summary_raw) ==
    IF Truthy(ai_summary_raw) THEN Markup(ai_summary_raw) ELSE None

\* lines 471-478
Insights(summary_html) ==
    [query |-> query,
     total_matching_jobs |-> total_jobs,
     job_listings |-> job_listings,
     salary_data |-> salary_data,
     ai_summary_html |-> summary_html,
     common_skills |-> common_skills]

Raised(exception) == [raised |-> exception]

Assemble(summary_html) ==
    /\ ai_summary_html' = summary_html
    /\ result' = Insights(summary_html)
    /\ pc' = "Assembled"

NarrativeWithoutSalary ==
    /\ pc = "Narrative"
    /\ invoked' = Append(invoked,
         [fn |-> "get_ai_summary",
          job_listings_sample |-> Take(job_listings, MaxSampleListings),
          salary_data |-> None])
    /\ IF ~AzureConfigured
       THEN Assemble(None) /\ UNCHANGED calls
       ELSE IF JoinRaises(SampleTitles(Take(job_listings, MaxSampleListings)))
       THEN /\ result' = Raised("TypeError")
            /\ pc' = "Raised"
            /\ UNCHANGED <<ai_summary_html, calls>>
       ELSE \E resp \in CompletionResponses :
            /\ calls' = Append(calls, "completion")
            /\ Assemble(SummaryHtml(SummaryOf(resp)))
    /\ UNCHANGED <<env, query, response, adzuna_data, total_jobs, job_listings,
                   salary_data, access_token, normalized_title_id, common_skills,
                   lightcast_token_cache, now, flashes, fnVars>>

\* line 464 and get_ai_summary, then lines 465-479
Narrative ==
    /\ pc = "Narrative"
    /\ invoked' = Append(invoked,
         [fn |-> "get_ai_summary",
          job_listings_sample |-> Take(job_listings, MaxSampleListings),
          salary_data |-> salary_data])
    /\ IF ~AzureConfigured
       THEN Assemble(None) /\ UNCHANGED calls
       ELSE IF JoinRaises(SampleTitles(Take(job_listings, MaxSampleListings)))
       THEN /\ result' = Raised("TypeError")
            /\ pc' = "Raised"
            /\ UNCHANGED <<ai_summary_html, calls>>
       ELSE \E resp \in CompletionResponses :
            /\ calls' = Append(calls, "completion")
            /\ Assemble(SummaryHtml(SummaryOf(resp)))
    /\ UNCHANGED <<env, query, response, adzuna_data, total_jobs, job_listings,
                   salary_data, access_token, normalized_title_id, common_skills,
                   lightcast_token_cache, now, flashes, fnVars>>

-----------------------------------------------------------------------------
(* Requests follow one another; the token slot outlives them *)

Finished == pc \in {"Assembled", "Fatal", "Raised"}

RequestStart(q) ==
    /\ query = q
    /\ pc = "Validating"
    /\ response = None
    /\ adzuna_data = None
    /\ total_jobs = Num(0)
    /\ job_listings = <<>>
    /\ salary_data = None
    /\ access_token = None
    /\ normalized_title_id = None
    /\ common_skills = None
    /\ ai_summary_html = None
    /\ flashes = <<>>
    /\ calls = <<>>
    /\ invoked = <<>>
    /\ result = Pending

NewRequest ==
    /\ Finished
    /\ query' \in QueryInputs
    /\ pc' = "Validating"
    /\ response' = None
    /\ adzuna_data' = None
    /\ total_jobs' = Num(0)
    /\ job_listings' = <<>>
    /\ salary_data' = None
    /\ access_token' = None
    /\ normalized_title_id' = None
    /\ common_skills' = None
    /\ ai_summary_html' = None
    /\ flashes' = <<>>
    /\ calls' = <<>>
    /\ invoked' = <<>>
    /\ result' = Pending
    /\ UNCHANGED <<env, lightcast_token_cache, now, fnVars>>

Init ==
    /\ env \in Envs
    /\ \E q \in QueryInputs : RequestStart(q)
    /\ lightcast_token_cache = [access_token |-> None, expires_at |-> 0]
    /\ now = 0
    /\ arg = None
    /\ ret = None
    /\ NoThreads

Next ==
    \/ Validate
    \/ SearchJobs
    \/ Salary
    \/ Token
    \/ Normalize
    \/ Details
    \/ Narrative
    \/ NewRequest

Spec == Init /\ [][Next]_vars

-----------------------------------------------------------------------------
(* C1 - C7 *)

ValidationPassed ==
    /\ Truthy(query.what) /\ Truthy(query.where) /\ Truthy(query.country)
    /\ env.ADZUNA_APP_ID /\ env.ADZUNA_APP_KEY

SearchSucceeded ==
    pc \in {"Salary", "Token", "Normalize", "Details", "Narrative", "Assembled", "Raised"}

SearchFailedBy(kinds) == response # None /\ response.kind \in kinds

NetworkFailures == {"Timeout", "HTTPError", "ConnectionError"}

IsInsights(r) ==
    DOMAIN r = {"query", "total_matching_jobs", "job_listings", "salary_data",
                "ai_summary_html", "common_skills"}

\* C1: no exception crosses the orchestrator boundary: whatever the external
\* calls answer, fetch_market_insights returns None or the assembled insights
\* record and never raises.
C1_NoExceptionCrosses ==
    Finished => (result = None \/ IsInsights(result))

SearchUnreadable ==
    /\ response # None
    /\ \/ response.kind = "InvalidJSON"
       \/ /\ response.kind = "ok"
          /\ \/ "list" \in DOMAIN response.body
             \/ \E i \in 1..Len(Get(response.body, "results", List(<<>>)).list) :
                  LET job == Get(response.body, "results", List(<<>>)).list[i]
                  IN  \/ "str" \in DOMAIN job
                      \/ /\ "redirect_url" \in DOMAIN job
                         /\ extract_adzuna_job_id(job.redirect_url) # None
                         /\ \/ ("company" \in DOMAIN job /\ job.company = None)
                            \/ ("location" \in DOMAIN job /\ job.location = None)

C3_EnrichmentFailuresDegrade ==
    (SearchSucceeded /\ Finished) =>
        /\ pc = "Assembled"
        /\ IsInsights(result)
        /\ result.total_matching_jobs = total_jobs
        /\ result.job_listings = job_listings
        /\ result.salary_data = salary_data
        /\ result.common_skills = common_skills
        /\ result.ai_summary_html = ai_summary_html

\* C4: if any of what/where/country is empty or the search provider's app id
\* or app key is not configured, fetch_market_insights goes straight to Fatal:
\* it returns None and performs no external call.
C4_ValidationGate ==
    (pc # "Validating" /\ ~ValidationPassed) =>
        /\ pc = "Fatal"
        /\ result = None
        /\ calls = <<>>

C4_Witness ==
    /\ pc = "Fatal"
    /\ Truthy(query.what) /\ Truthy(query.where) /\ Truthy(query.country)
    /\ env.ADZUNA_APP_ID /\ ~env.ADZUNA_APP_KEY
    /\ result = None
    /\ calls = <<>>

\* C5: when the job-search call fails (timeout, HTTP error status or
\* connectivity error) the orchestrator goes from SearchingJobs to Fatal and
\* never enters Enriching: it returns None and the search is the only endpoint
\* called in that request.
C5_SearchFailureIsFatal ==
    SearchFailedBy(NetworkFailures) =>
        /\ pc = "Fatal"
        /\ result = None
        /\ calls = <<"search">>

C5_Witness ==
    /\ response = HTTPError(404)
    /\ pc = "Fatal"
    /\ result = None
    /\ calls = <<"search">>

\* the message of the five causes the claim lists, as a set (empty when the
\* cause is none of them)
ListedCauseMessages ==
    IF ~(Truthy(query.what) /\ Truthy(query.where) /\ Truthy(query.country))
    THEN {MsgMissingCriteria}
    ELSE IF ~(env.ADZUNA_APP_ID /\ env.ADZUNA_APP_KEY) THEN {MsgNoCredentials}
    ELSE IF SearchFailedBy({"Timeout"}) THEN {MsgTimeout}
    ELSE IF SearchFailedBy({"HTTPError"}) THEN {MsgHTTPError(response.status_code)}
    ELSE IF SearchFailedBy({"ConnectionError"}) THEN {MsgConnection}
    ELSE {}

\* C6 as stated: every request that ends in Fatal records exactly one error
\* message, the one of its cause among missing criteria, missing credentials,
\* search timeout, search HTTP status and search connectivity; every request
\* that ends in Assembled records none.
C6_OneMessagePerListedCause ==
    /\ pc = "Fatal" => (Len(flashes) = 1 /\ flashes[1] \in ListedCauseMessages)
    /\ pc = "Assembled" => flashes = <<>>

\* C6 amended: the causes are the five listed and a sixth, a search response
\* that cannot be read, whose message is the internal-error one (for a body
\* that is not JSON, the connectivity or the internal-error message, as the
\* requests release decides).
C6_OneMessagePerCause ==
    /\ pc = "Fatal" =>
          /\ Len(flashes) = 1
          /\ flashes[1] \in
                (IF ListedCauseMessages # {} THEN ListedCauseMessages
                 ELSE IF SearchFailedBy({"InvalidJSON"}) THEN {MsgConnection, MsgInternal}
                 ELSE IF SearchUnreadable THEN {MsgInternal}
                 ELSE {})
    /\ pc = "Assembled" => flashes = <<>>

C6_Witness ==
    /\ pc = "Fatal"
    /\ response = HTTPError(500)
    /\ flashes = <<MsgHTTPError(500)>>

\* the indices of the results a job id can be derived from
WithId(results) ==
    {i \in 1..Len(results) :
        /\ IsDict(results[i])
        /\ "redirect_url" \in DOMAIN results[i]
        /\ extract_adzuna_job_id(results[i].redirect_url) # None}

\* the k-th smallest element of a set of numbers
Nth(S, k) == CHOOSE x \in S : Cardinality({y \in S : y < x}) = k - 1

\* C7: a result whose redirect URL yields no id is excluded from
\* job_listings, every result with a derivable id is included (in the
\* provider's order), and total_matching_jobs is the provider's reported count
\* however many results were dropped.
C7_ListingsAndTotal ==
    SearchSucceeded =>
        LET results == Get(adzuna_data, "results", List(<<>>)).list
            kept == WithId(results)
        IN  /\ Len(job_listings) = Cardinality(kept)
            /\ \A k \in 1..Len(job_listings) :
                  /\ job_listings[k].url = results[Nth(kept, k)].redirect_url
                  /\ job_listings[k].adzuna_job_id
                       = extract_adzuna_job_id(results[Nth(kept, k)].redirect_url)
            /\ total_jobs = (IF "count" \in DOMAIN adzuna_data
                             THEN adzuna_data.count ELSE Num(0))
            /\ pc = "Assembled" =>
                  /\ result.job_listings = job_listings
                  /\ result.total_matching_jobs = total_jobs

\* count 42, two results, one of them without an id: one listing, total 42
C7_Witness ==
    /\ pc = "Assembled"
    /\ "count" \in DOMAIN adzuna_data
    /\ adzuna_data.count = Num(42)
    /\ Len(adzuna_data.results.list) = 2
    /\ Len(result.job_listings) = 1
    /\ result.total_matching_jobs = Num(42)

-----------------------------------------------------------------------------
(* C11 *)

RECURSIVE NumericSalarySum(_)
NumericSalarySum(h) ==
    IF h = <<>> THEN 0
    ELSE (IF ParsesAsFloat(Head(h).key) THEN float(Head(h).key) * Head(h).count ELSE 0)
         + NumericSalarySum(Tail(h))

Abs(x) == IF x < 0 THEN -x ELSE x

\* a is n / d rounded to the nearest integer, a half going to the even one
IsRounded(a, n, d) ==
    \/ 2 * Abs(n - a * d) < d
    \/ 2 * Abs(n - a * d) = d /\ a % 2 = 0

\* C11 as stated: for every non-empty histogram (with a bucket whose key
\* parses as a number) the insight is returned and its average is the number
\* round(sum(key * count) / sum(count)) taken over the buckets whose key
\* parses as a number.
C11_AverageIsRoundedMean ==
    (SalaryReturned /\ NumericKeys(arg.body.histogram) # {}) =>
        /\ ret # None
        /\ ret.average # None
        /\ IsRounded(ret.average.num, NumericSalarySum(arg.body.histogram),
                     NumericTotalCount(arg.body.histogram))

\* C11 amended: for every non-empty histogram the insight is returned with
\* the histogram unchanged; when the counts of the buckets whose key parses
\* as a number sum to more than zero, its average is
\* round(sum(key * count) / sum(count)) over exactly those buckets (a half
\* rounds to the even integer), and when they sum to zero its average is None.
C11_AverageIsRoundedMeanPositive ==
    SalaryReturned =>
        /\ ret # None
        /\ ret.histogram = arg.body.histogram
        /\ IF NumericTotalCount(arg.body.histogram) > 0
           THEN /\ ret.average # None
                /\ IsRounded(ret.average.num, NumericSalarySum(arg.body.histogram),
                             NumericTotalCount(arg.body.histogram))
           ELSE ret.average = None

\* {"30000": 2, "40000": 2} -> 35000
C11_Witness ==
    /\ SalaryReturned
    /\ arg.body.histogram = <<[key |-> <<"3", "0", "0", "0", "0">>, count |-> 2],
                              [key |-> <<"4", "0", "0", "0", "0">>, count |-> 2]>>
    /\ ret.average = Num(35000)

-----------------------------------------------------------------------------
(* get_lightcast_token on its own: app.py 119-165.  Each thread of the     *)
(* server runs the function statement by statement on the one cache slot;  *)
(* the clock moves between calls and while a thread waits for the auth     *)
(* endpoint.                                                               *)

MaxTicks == 2

TickStep == 5

TokB == <<"t", "o", "k", "B">>

Soon == <<"s", "o", "o", "n">>

ShortExpiresIn == Num(TokenMargin + 5)

\* bodies of the auth endpoint: no token, a token with the default lifetime,
\* a token with a short lifetime, a token with a lifetime that is no number
ExchangeBodies ==
    {EmptyDict}
    \cup {[access_token |-> Str(tk)] : tk \in {TokA, TokB}}
    \cup {[access_token |-> Str(tk), expires_in |-> e] :
            tk \in {TokA, TokB}, e \in {ShortExpiresIn, Str(Soon)}}

ExchangeResponses == Failures \cup {Ok(b) : b \in ExchangeBodies}

ColdCache == [access_token |-> None, expires_at |-> 0]

\* a thread outside the function.  History of its call: valid0, the slot was
\* within the margin when the call began; exchanges, the requests it sent to
\* the auth endpoint; changed, it wrote another value into the slot;
\* from_cache and served_expiry, it returned the slot's token, whose exchange
\* asked for that expiry.
IdleFrame ==
    [pc |-> "Idle", current_time |-> 0, access_token |-> None, expires_in |-> None,
     ret |-> Pending, valid0 |-> FALSE, exchanges |-> 0, changed |-> FALSE,
     from_cache |-> FALSE, served_expiry |-> None]

requestVars ==
    <<env, query, pc, response, adzuna_data, total_jobs, job_listings, salary_data,
      access_token, normalized_title_id, common_skills, ai_summary_html, flashes,
      calls, invoked, result>>

\* the call of thread t returns value: ret is the value the latest call
\* returned, arg the value the call before it returned
Return(t, value) ==
    /\ frames' = [frames EXCEPT ![t].pc = "Done", ![t].ret = value,
                                ![t].access_token = None]
    /\ arg' = ret
    /\ ret' = value

\* line 122
Call(t) ==
    /\ frames[t].pc \in {"Idle", "Done"}
    /\ frames' = [frames EXCEPT ![t] =
                    [IdleFrame EXCEPT !.pc = "L125_token",
                                      !.current_time = now,
                                      !.valid0 = CacheValid(lightcast_token_cache, now)]]
    /\ UNCHANGED <<lightcast_token_cache, now, issued_expiry, arg, ret, requestVars, SavedJob>>

\* line 125, left operand of and
ReadToken(t) ==
    /\ frames[t].pc = "L125_token"
    /\ frames' = [frames EXCEPT ![t].pc =
                    IF Truthy(lightcast_token_cache.access_token)
                    THEN "L125_expires" ELSE "L130"]
    /\ UNCHANGED <<lightcast_token_cache, now, issued_expiry, arg, ret, requestVars, SavedJob>>

ReadExpiryNoMargin(t) ==
    /\ frames[t].pc = "L125_expires"
    /\ frames' = [frames EXCEPT ![t].pc =
                    IF lightcast_token_cache.expires_at > frames[t].current_time
                    THEN "L127" ELSE "L130"]
    /\ UNCHANGED <<lightcast_token_cache, now, issued_expiry, arg, ret, requestVars, SavedJob>>

\* line 125, right operand of and
ReadExpiry(t) ==
    /\ frames[t].pc = "L125_expires"
    /\ frames' = [frames EXCEPT ![t].pc =
                    IF lightcast_token_cache.expires_at
                         > frames[t].current_time + TokenMargin
                    THEN "L127" ELSE "L130"]
    /\ UNCHANGED <<lightcast_token_cache, now, issued_expiry, arg, ret, requestVars, SavedJob>>

\* line 127
ReturnCached(t) ==
    /\ frames[t].pc = "L127"
    /\ frames' = [frames EXCEPT ![t].pc = "Done",
                                ![t].ret = lightcast_token_cache.access_token,
                                ![t].from_cache = TRUE,
                                ![t].served_expiry = issued_expiry]
    /\ arg' = ret
    /\ ret' = lightcast_token_cache.access_token
    /\ UNCHANGED <<lightcast_token_cache, now, issued_expiry, requestVars, SavedJob>>

\* lines 130-144: the credentials check, then the request leaves
SendRequest(t) ==
    /\ frames[t].pc = "L130"
    /\ IF ~LightcastConfigured
       THEN Return(t, None)
       ELSE /\ frames' = [frames EXCEPT ![t].pc = "L144",
                                        ![t].exchanges = frames[t].exchanges + 1]
            /\ UNCHANGED <<arg, ret>>
    /\ UNCHANGED <<lightcast_token_cache, now, issued_expiry, requestVars, SavedJob>>

\* lines 144-152 and the handlers 160-165: the exchange answers resp
Receive(t) ==
    /\ frames[t].pc = "L144"
    /\ \E resp \in ExchangeResponses :
         IF resp.kind # "ok" \/ ~Truthy(Get(resp.body, "access_token", None))
         THEN Return(t, None)
         ELSE /\ frames' = [frames EXCEPT
                   ![t].pc = "L155",
                   ![t].access_token = Get(resp.body, "access_token", None),
                   ![t].expires_in = Get(resp.body, "expires_in", Num(DefaultExpiresIn))]
              /\ UNCHANGED <<arg, ret>>
    /\ UNCHANGED <<lightcast_token_cache, now, issued_expiry, requestVars, SavedJob>>

StoreTokenKeepsOld(t) ==
    /\ frames[t].pc = "L155"
    /\ lightcast_token_cache' =
         [lightcast_token_cache EXCEPT !.access_token =
            IF Truthy(lightcast_token_cache.access_token)
            THEN lightcast_token_cache.access_token ELSE frames[t].access_token]
    /\ issued_expiry' =
         IF IsNum(frames[t].expires_in)
         THEN Num(frames[t].current_time + frames[t].expires_in.num)
         ELSE None
    /\ frames' = [frames EXCEPT ![t].pc = "L156"]
    /\ UNCHANGED <<now, arg, ret, requestVars, SavedJob>>

\* line 155
StoreToken(t) ==
    /\ frames[t].pc = "L155"
    /\ lightcast_token_cache' =
         [lightcast_token_cache EXCEPT !.access_token = frames[t].access_token]
    /\ issued_expiry' =
         IF IsNum(frames[t].expires_in)
         THEN Num(frames[t].current_time + frames[t].expires_in.num)
         ELSE None
    /\ frames' = [frames EXCEPT
         ![t].pc = "L156",
         ![t].changed = frames[t].changed
                          \/ lightcast_token_cache.access_token # frames[t].access_token]
    /\ UNCHANGED <<now, arg, ret, requestVars, SavedJob>>

\* lines 156-158; the sum raises TypeError when expires_in is no number and
\* the handler of line 163 returns None
StoreExpiry(t) ==
    /\ frames[t].pc = "L156"
    /\ IF IsNum(frames[t].expires_in)
       THEN /\ lightcast_token_cache' =
                 [lightcast_token_cache EXCEPT
                    !.expires_at = frames[t].current_time + frames[t].expires_in.num]
            /\ frames' = [frames EXCEPT
                 ![t].pc = "Done",
                 ![t].ret = frames[t].access_token,
                 ![t].access_token = None,
                 ![t].changed = frames[t].changed
                                  \/ lightcast_token_cache.expires_at
                                       # frames[t].current_time + frames[t].expires_in.num]
            /\ arg' = ret
            /\ ret' = frames[t].access_token
       ELSE /\ Return(t, None)
            /\ UNCHANGED lightcast_token_cache
    /\ UNCHANGED <<now, issued_expiry, requestVars, SavedJob>>

\* time.time() grows between calls and while a request is in flight
Tick ==
    /\ \A t \in DOMAIN frames : frames[t].pc \in {"Idle", "Done", "L144"}
    /\ now + TickStep <= MaxTicks * TickStep
    /\ now' = now + TickStep
    /\ UNCHANGED <<lightcast_token_cache, frames, issued_expiry, arg, ret, requestVars, SavedJob>>

\* the server's credentials; the token cache does not read the others
TokenEnvs == {e \in Envs : /\ e.ADZUNA_APP_ID /\ e.ADZUNA_APP_KEY
                           /\ e.AZURE_AI_ENDPOINT /\ e.AZURE_AI_KEY}

\* one thread: calls follow one another
InitToken ==
    /\ env \in TokenEnvs
    /\ OrchIdle
    /\ arg = None
    /\ ret = None
    /\ frames = [t \in {1} |-> IdleFrame]
    /\ issued_expiry = None
    /\ SavedJob = EmptyTable

RaceThreads == {1, 2}

\* two request threads of the server share the slot
InitTokenRace ==
    /\ env \in TokenEnvs
    /\ OrchIdle
    /\ arg = None
    /\ ret = None
    /\ frames = [t \in RaceThreads |-> IdleFrame]
    /\ issued_expiry = None
    /\ SavedJob = EmptyTable

NextToken ==
    \/ \E t \in DOMAIN frames : Call(t)
    \/ \E t \in DOMAIN frames : ReadToken(t)
    \/ \E t \in DOMAIN frames : ReadExpiry(t)
    \/ \E t \in DOMAIN frames : ReturnCached(t)
    \/ \E t \in DOMAIN frames : SendRequest(t)
    \/ \E t \in DOMAIN frames : Receive(t)
    \/ \E t \in DOMAIN frames : StoreToken(t)
    \/ \E t \in DOMAIN frames : StoreExpiry(t)
    \/ Tick

SpecToken == InitToken /\ [][NextToken]_vars

SpecTokenRace == InitTokenRace /\ [][NextToken]_vars

-----------------------------------------------------------------------------
(* C12 - C15 *)

Returned(f) == f.pc = "Done"

\* C12: a call of get_lightcast_token returns the slot's token, without a
\* request to the auth endpoint, if and only if a token was cached and
\* now + 60 < expires_at when it began, and then the token it returns is more
\* than 60 s from its stored expiry; otherwise, with the credentials set, it
\* sends one exchange, and when it returns the token of that exchange the slot
\* holds that token with expires_at = now + expires_in.
C12_CachedIffWithinMargin ==
    \A t \in DOMAIN frames :
        LET f == frames[t]
        IN  Returned(f) =>
              /\ f.from_cache <=> f.valid0
              /\ f.from_cache =>
                   /\ f.exchanges = 0
                   /\ Truthy(f.ret)
                   /\ f.ret = lightcast_token_cache.access_token
                   /\ f.current_time + TokenMargin < lightcast_token_cache.expires_at
              /\ (~f.from_cache /\ LightcastConfigured) => f.exchanges = 1
              /\ (~f.from_cache /\ Truthy(f.ret)) =>
                   lightcast_token_cache =
                     [access_token |-> f.ret,
                      expires_at |-> f.current_time + f.expires_in.num]

\* a second exchange, after the first token came within the margin of its
\* expiry, stored the token tokB and now + expires_in
C12_Witness ==
    /\ Returned(frames[1])
    /\ ~frames[1].from_cache
    /\ frames[1].current_time = TickStep
    /\ arg = Str(TokA)
    /\ ret = Str(TokB)
    /\ lightcast_token_cache =
         [access_token |-> Str(TokB), expires_at |-> TickStep + ShortExpiresIn.num]

\* C13: when the call before returned a token and the slot is within its
\* expiry margin as a call begins, the call returns the identical value and
\* sends no request to the auth endpoint.
C13_TwiceWithinMargin ==
    \A t \in DOMAIN frames :
        LET f == frames[t]
        IN  (Returned(f) /\ f.valid0 /\ Truthy(arg)) =>
              /\ f.ret = arg
              /\ f.exchanges = 0

\* tokB came from an exchange at the second tick and the next call returned it
C13_Witness ==
    /\ Returned(frames[1])
    /\ frames[1].valid0
    /\ frames[1].current_time = TickStep
    /\ arg = Str(TokB)
    /\ ret = Str(TokB)
    /\ frames[1].exchanges = 0

\* C14: when the slot was cold or expired as the call began and the call
\* returns None, the call left the slot (token and expiry) as it was and sent
\* at most one request to the auth endpoint, none with the credentials unset.
C14_FailureLeavesCache ==
    \A t \in DOMAIN frames :
        LET f == frames[t]
        IN  (Returned(f) /\ ~f.valid0 /\ f.ret = None) =>
              /\ ~f.changed
              /\ f.exchanges <= 1
              /\ ~LightcastConfigured => f.exchanges = 0

\* C15: with two threads in get_lightcast_token, every token a call returns
\* from the slot was stored by an exchange that asked for an expiry, and the
\* call began more than 60 s before that expiry.
C15_RaceIsBenign ==
    \A t \in DOMAIN frames :
        LET f == frames[t]
        IN  (Returned(f) /\ f.from_cache) =>
              /\ Truthy(f.ret)
              /\ IsNum(f.served_expiry)
              /\ f.current_time + TokenMargin < f.served_expiry.num

-----------------------------------------------------------------------------
(* C16 *)

Endpoints == {"search", "histogram", "token", "normalize", "details", "completion"}

TimesCalled(endpoint) == Cardinality({i \in 1..Len(calls) : calls[i] = endpoint})

\* C16: within one request every external endpoint (job search, salary
\* histogram, token exchange, title normalization, title detail, completion)
\* is requested at most once, whatever the outcome of the request.
C16_NoRetry ==
    /\ \A i \in 1..Len(calls) : calls[i] \in Endpoints
    /\ \A endpoint \in Endpoints : TimesCalled(endpoint) <= 1

\* the histogram, the detail and the completion request failed, and each of
\* the six endpoints was requested once
C16_Witness ==
    /\ pc = "Assembled"
    /\ calls = <<"search", "histogram", "token", "normalize", "details", "completion">>
    /\ result.salary_data = None
    /\ result.common_skills = None
    /\ result.ai_summary_html = None

-----------------------------------------------------------------------------
(* get_lightcast_skills on its own: app.py 168-233.  The inputs are the    *)
(* title, what get_lightcast_token returns and the answers of the two      *)
(* endpoints; the result is the value returned with the endpoints          *)
(* requested, in order.                                                    *)

MaxSkillList == 17

\* a mapping of n skills named s1 .. sn, the one at index gap without a name
SkillList(n, gap) ==
    [i \in 1..n |-> IF i = gap THEN [id |-> Str(TitleId)]
                    ELSE [name |-> Str(<<"s", ToString(i)>>)]]

LongDetailsResponses ==
    {Ok([data |-> [mapping |-> [skills |-> List(SkillList(n, gap))]]]) :
        n \in 1..MaxSkillList, gap \in 0..2}

SkillsInputs ==
    [job_title : {Str(<<>>), Str(Nurse)},
     access_token : {None, Str(TokA)},
     normalize : NormalizeResponses,
     details : DetailsResponses \cup LongDetailsResponses]

get_lightcast_skills_without_token(job_title, token, normalize, details) ==
    IF ~Truthy(job_title) THEN [skills |-> None, requested |-> <<>>]
    ELSE LET id == NormalizedId(normalize)
         IN  IF ~Truthy(id) THEN [skills |-> None, requested |-> <<"normalize">>]
             ELSE [skills |-> SkillsOf(details),
                   requested |-> <<"normalize", "details">>]

\* lines 170, 173-177, 188-208, 216-233
get_lightcast_skills(job_title, token, normalize, details) ==
    IF ~Truthy(job_title) THEN [skills |-> None, requested |-> <<>>]
    ELSE IF ~Truthy(token) THEN [skills |-> None, requested |-> <<>>]
    ELSE LET id == NormalizedId(normalize)
         IN  IF ~Truthy(id) THEN [skills |-> None, requested |-> <<"normalize">>]
             ELSE [skills |-> SkillsOf(details),
                   requested |-> <<"normalize", "details">>]

InitSkills ==
    /\ arg \in SkillsInputs
    /\ ret = Pending
    /\ env = AllConfigured
    /\ OrchIdle
    /\ NoThreads

SkillsCall ==
    /\ ret = Pending
    /\ ret' = get_lightcast_skills(arg.job_title, arg.access_token,
                                   arg.normalize, arg.details)
    /\ UNCHANGED <<arg, frames, issued_expiry, SavedJob, orchVars>>

NextSkills == SkillsCall

SpecSkills == InitSkills /\ [][NextSkills]_vars

-----------------------------------------------------------------------------
(* C17, C18 *)

SkillsReturned == ret # Pending /\ arg \in SkillsInputs

\* C17: when get_lightcast_token gave no token, or the title is empty,
\* get_lightcast_skills returns None and requests neither the normalization
\* nor the detail endpoint.
C17_NoTokenShortCircuits ==
    (SkillsReturned /\ (~Truthy(arg.access_token) \/ arg.job_title = Str(<<>>))) =>
        /\ ret.skills = None
        /\ \A i \in 1..Len(ret.requested) :
             ret.requested[i] \notin {"normalize", "details"}

\* no token, though both endpoints would have answered
C17_Witness ==
    /\ SkillsReturned
    /\ arg.job_title = Str(Nurse)
    /\ arg.access_token = None
    /\ arg.normalize.kind = "ok"
    /\ arg.details.kind = "ok"
    /\ ret = [skills |-> None, requested |-> <<>>]

\* the normalization answered with a list whose first title carries an id
GaveId(normalize) ==
    /\ normalize.kind = "ok"
    /\ "data" \in DOMAIN normalize.body
    /\ normalize.body.data.list # <<>>
    /\ "id" \in DOMAIN normalize.body.data.list[1]
    /\ normalize.body.data.list[1].id # Str(<<>>)

\* the detail answered with data.mapping.skills
HasNestedSkills(details) ==
    /\ details.kind = "ok"
    /\ "data" \in DOMAIN details.body
    /\ "mapping" \in DOMAIN details.body.data
    /\ "skills" \in DOMAIN details.body.data.mapping

HasName(skill) == "name" \in DOMAIN skill /\ skill.name # Str(<<>>)

\* the names of the first up to MaxSkills skills that carry a name, in order
FirstNames(details) ==
    LET named == SelectSeq(details.body.data.mapping.skills.list, HasName)
    IN  [i \in 1..(IF Len(named) < MaxSkills THEN Len(named) ELSE MaxSkills) |->
            named[i].name]

\* C18: with a title and a token, get_lightcast_skills requests the
\* normalization and then, only when the normalization returned an id, the
\* detail; it returns None when either request failed, when no id came back or
\* when the detail carries no data.mapping.skills, and otherwise the first at
\* most 15 skill names of the mapping, in the provider's order.
C18_NormalizeThenDetail ==
    (SkillsReturned /\ Truthy(arg.access_token) /\ Truthy(arg.job_title)) =>
        /\ ret.requested = IF GaveId(arg.normalize) THEN <<"normalize", "details">>
                           ELSE <<"normalize">>
        /\ ret.skills = IF GaveId(arg.normalize) /\ HasNestedSkills(arg.details)
                        THEN List(FirstNames(arg.details))
                        ELSE None

\* more than 15 skills, the second without a name: the 15 names returned
\* are s1, s3 .. s16
C18_Witness ==
    /\ SkillsReturned
    /\ ret.requested = <<"normalize", "details">>
    /\ ret.skills # None
    /\ Len(arg.details.body.data.mapping.skills.list) = MaxSkills + 2
    /\ "id" \in DOMAIN arg.details.body.data.mapping.skills.list[2]
    /\ Len(ret.skills.list) = MaxSkills
    /\ ret.skills.list[1] = Str(<<"s", "1">>)
    /\ ret.skills.list[2] = Str(<<"s", "3">>)
    /\ ret.skills.list[MaxSkills] = Str(<<"s", "16">>)

-----------------------------------------------------------------------------
(* C19 *)

EnrichingOrder == <<"get_salary_histogram", "get_lightcast_skills", "get_ai_summary">>

\* C19: the enrichment functions are called in the order salary, skills,
\* narrative, each at most once and each only after the one before returned;
\* the narrative is called only after the salary step returned, with exactly
\* the value the salary step returned and with the first up to 10 kept
\* listings.
C19_SalarySkillsNarrative ==
    /\ Len(invoked) <= Len(EnrichingOrder)
    /\ \A i \in 1..Len(invoked) : invoked[i].fn = EnrichingOrder[i]
    /\ pc \in {"Validating", "SearchingJobs", "Fatal", "Salary"} => invoked = <<>>
    /\ pc = "Token" => Len(invoked) = 1
    /\ pc \in {"Normalize", "Details", "Narrative"} => Len(invoked) = 2
    /\ Len(invoked) = 3 =>
         /\ pc \in {"Assembled", "Raised"}
         /\ invoked[3].salary_data = invoked[1].ret
         /\ invoked[1].ret = salary_data
         /\ Len(invoked[3].job_listings_sample) <= 10
         /\ Len(invoked[3].job_listings_sample) <= Len(job_listings)
         /\ Len(job_listings) >= 10 => Len(invoked[3].job_listings_sample) = 10
         /\ Len(job_listings) < 10 =>
              Len(invoked[3].job_listings_sample) = Len(job_listings)
         /\ \A i \in 1..Len(invoked[3].job_listings_sample) :
              invoked[3].job_listings_sample[i] = job_listings[i]

\* eleven listings were kept and the salary step returned an insight: the
\* narrative received that insight and ten listings
C19_Witness ==
    /\ pc = "Assembled"
    /\ Len(invoked) = 3
    /\ Len(job_listings) = 11
    /\ Len(invoked[3].job_listings_sample) = 10
    /\ invoked[1].ret # None
    /\ invoked[1].ret.average = Num(35000)
    /\ invoked[3].salary_data = invoked[1].ret

-----------------------------------------------------------------------------
(* The prompt of get_ai_summary on its own: app.py 280-315 *)

MaxSample == 2

\* lengths around the half of the threshold and around the threshold
DescriptionLengths ==
    {0, 1, (MaxDescLength \div 2) - 1, MaxDescLength \div 2,
     MaxDescLength - 1, MaxDescLength, MaxDescLength + 1}

Descriptions ==
    {None} \cup {Str([i \in 1..n |-> c]) : n \in DescriptionLengths, c \in {"a", "b"}}

SampleListings == [title : {Str(Nurse)}, description : Descriptions]

\* six listings of one letter each: the sixth is outside the sample
SixListings == [i \in 1..(MaxSampleDescriptions + 1) |->
                   [title |-> Str(Nurse), description |-> Str(<<"a">>)]]

\* histograms whose mean is a number, is absent, is zero
SummaryHistograms ==
    { <<[key |-> <<"3", "0", "0", "0", "0">>, count |-> 2],
        [key |-> <<"4", "0", "0", "0", "0">>, count |-> 2]>>,
      <<[key |-> <<"1", "2", "3", "4", "5", "6", "7">>, count |-> 1]>>,
      <<[key |-> <<"n", "/", "a">>, count |-> 1]>>,
      <<[key |-> <<"1", "0">>, count |-> 0]>>,
      <<[key |-> <<"0">>, count |-> 1]>>,
      <<[key |-> <<"0">>, count |-> 2], [key |-> <<"1">>, count |-> 1]>> }

\* what get_salary_histogram returns (lines 261-262, 265): None or an insight
SalaryInsights ==
    {None} \cup {[histogram |-> h, average |-> Average(Totals(h))] : h \in SummaryHistograms}

SummaryInputs ==
    [job_listings_sample : SeqsUpTo(SampleListings, MaxSample) \cup {SixListings},
     salary_data : {None}]
    \cup [job_listings_sample : {<<>>, SixListings}, salary_data : SalaryInsights]

InitSummary ==
    /\ arg \in SummaryInputs
    /\ ret = Pending
    /\ env \in {e \in Envs : /\ e.ADZUNA_APP_ID /\ e.ADZUNA_APP_KEY
                             /\ e.LIGHTCAST_CLIENT_ID /\ e.LIGHTCAST_CLIENT_SECRET}
    /\ OrchIdle
    /\ NoThreads

SummaryCall ==
    /\ ret = Pending
    /\ ret' = PromptOf(arg.job_listings_sample, arg.salary_data)
    /\ UNCHANGED <<arg, frames, issued_expiry, SavedJob, orchVars>>

NextSummary == SummaryCall

SpecSummary == InitSummary /\ [][NextSummary]_vars

-----------------------------------------------------------------------------
(* C20 *)

PromptBuilt == ret # Pending /\ ret # None

\* text is the first MaxDescLength characters of joined, then the marker
CutWithMarker(text, joined) ==
    /\ Len(text) = MaxDescLength + 3
    /\ \A i \in 1..MaxDescLength : text[i] = joined[i]
    /\ \A i \in (MaxDescLength + 1)..(MaxDescLength + 3) : text[i] = "."

\* C20 as stated: when the joined sample descriptions are longer than 1000
\* characters, the text embedded in the prompt is exactly their first 1000
\* characters followed by "..."; when they are at or below 1000 characters
\* they are embedded unchanged, with no marker.
C20_DescriptionSampleBoundary ==
    PromptBuilt =>
        LET joined == JoinedDescriptions(arg.job_listings_sample)
            text == ret.embedded_descriptions.str
        IN  IF Len(joined) > 1000 THEN CutWithMarker(text, joined)
            ELSE text = joined

\* C20 amended: when the joined sample descriptions are longer than 1000
\* characters, the text embedded in the prompt is exactly their first 1000
\* characters followed by "..."; when they are at or below 1000 characters and
\* not empty they are embedded unchanged, with no marker; when they are empty
\* the prompt carries N/A in their place.
C20_DescriptionSampleBoundaryNonEmpty ==
    PromptBuilt =>
        LET joined == JoinedDescriptions(arg.job_listings_sample)
            text == ret.embedded_descriptions.str
        IN  IF Len(joined) > 1000 THEN CutWithMarker(text, joined)
            ELSE IF joined # <<>> THEN text = joined
            ELSE text = <<"N", "/", "A">>

\* 500 letters a, a blank and 500 letters b are 1001 characters: the prompt
\* carries the first 1000 and the marker
C20_Witness ==
    /\ PromptBuilt
    /\ Len(arg.job_listings_sample) = 2
    /\ Len(JoinedDescriptions(arg.job_listings_sample)) = MaxDescLength + 1
    /\ Len(ret.embedded_descriptions.str) = MaxDescLength + 3
    /\ ret.embedded_descriptions.str[1] = "a"
    /\ ret.embedded_descriptions.str[MaxDescLength] = "b"
    /\ ret.embedded_descriptions.str[MaxDescLength + 1] = "."

-----------------------------------------------------------------------------
(* C21 *)

\* C21: the salary phrase of the prompt is the average phrase whenever the
\* salary insight carries an average (any number), the distribution phrase
\* exactly when the insight carries a histogram and its average is absent, and
\* "Not available" exactly when the insight is absent.
C21_SalaryPhrase ==
    PromptBuilt =>
        LET insight == arg.salary_data
            phrase == ret.salary_info
        IN  /\ (insight # None /\ insight.average # None) =>
                  /\ "average" \in DOMAIN phrase
                  /\ phrase.text = "approximately {average:,} (currency based on country)"
            /\ phrase = PhraseDistribution <=>
                  /\ insight # None
                  /\ insight.histogram # <<>>
                  /\ insight.average = None
            /\ phrase = PhraseNotAvailable <=> insight = None

-----------------------------------------------------------------------------
(* C22 *)

\* the search succeeded and the request has ended
EnrichingOver == pc \in {"Assembled", "Raised"}

NotRequested(endpoint) == \A i \in 1..Len(calls) : calls[i] # endpoint

\* C22: with the completion endpoint or key unset the narrative step requests
\* nothing and the narrative is absent; with the taxonomy client id or secret
\* unset, on a cold cache, no token exchange and no title request is made and
\* the skills are absent; in both cases the request returns the assembled
\* result.
C22_CredentialsGateFeatures ==
    /\ (EnrichingOver /\ ~AzureConfigured) =>
          /\ NotRequested("completion")
          /\ pc = "Assembled"
          /\ IsInsights(result)
          /\ result.ai_summary_html = None
    /\ (EnrichingOver /\ ~LightcastConfigured
            /\ ~CacheValid(lightcast_token_cache, now)) =>
          /\ NotRequested("token")
          /\ NotRequested("normalize")
          /\ NotRequested("details")
          /\ pc = "Assembled"
          /\ IsInsights(result)
          /\ result.common_skills = None

-----------------------------------------------------------------------------
(* Bookmarks: save_job (app.py 584-631) and unsave_job (634-704) over the  *)
(* saved_job table (78-86).  Each request runs in its own thread with its  *)
(* own session; the threads meet in the database, so a handler is split at *)
(* its two database operations: the lookup (.first()) and the commit.      *)
(***************************************************************************)
MaxRowId == 2

\* current_user.id of the logged-in users
Users == {1, 2}

Job7 == Str(<<"7">>)
Job8 == Str(<<"8">>)
JobIds == {Job7, Job8}

JobTitle == Str(<<"N">>)
JobUrl == Str(<<"u">>)

BookmarkThreads == {1, 2}

\* a POST: request.is_json, request.get_json() and request.form
JsonPost(data) == [is_json |-> TRUE, json |-> data, form |-> EmptyDict]
FormPost(fields) == [is_json |-> FALSE, json |-> None, form |-> fields]

\* the bodies the index page and other clients send to /save_job
SaveRequests ==
    {FormPost(EmptyDict), JsonPost(EmptyDict),
     JsonPost([adzuna_job_id |-> Job7, adzuna_url |-> JobUrl])}
    \cup {JsonPost([adzuna_job_id |-> j, title |-> JobTitle, adzuna_url |-> JobUrl]) :
            j \in JobIds}

\* the bodies the index page (JSON) and the saved-jobs page (form) send to
\* /unsave_job
UnsaveRequests ==
    {FormPost(EmptyDict), JsonPost(EmptyDict), JsonPost([title |-> JobTitle]),
     FormPost([csrf_token |-> Str(<<"c">>)])}
    \cup {JsonPost([adzuna_job_id |-> j]) : j \in JobIds}
    \cup {FormPost([adzuna_job_id |-> j]) : j \in JobIds}

\* the locals of a request, its answer (status, flashed; a redirect is 302),
\* and history: looked_up, the request reached the lookup; found, the lookup
\* returned a row; was_saved, the job was saved when the request's last
\* database operation ran; changed, the request changed the table
IdleRequest ==
    [pc |-> "Idle", fn |-> "", user_id |-> 0, is_ajax |-> FALSE, adzuna_job_id |-> None,
     job_to_unsave |-> None, status |-> 0, flashed |-> "",
     looked_up |-> FALSE, found |-> FALSE, was_saved |-> FALSE, changed |-> FALSE]

\* SavedJob.query.filter_by(user_id=..., adzuna_job_id=...)
filter_by(table, user_id, adzuna_job_id) ==
    {r \in table.rows : r.user_id = user_id /\ r.adzuna_job_id = adzuna_job_id}

\* .first()
first(rows) == IF rows = {} THEN None ELSE CHOOSE r \in rows : TRUE

NoUniqueConstraint(table, user_id, adzuna_job_id) == FALSE
\* _user_job_uc, line 85: an insert of (user_id, adzuna_job_id) is refused
UniqueViolation(table, user_id, adzuna_job_id) ==
    filter_by(table, user_id, adzuna_job_id) # {}

\* return ..., status  /  flash(...); return redirect(...)
Answer(frame, status, flashed) ==
    [frame EXCEPT !.pc = "Done", !.status = status, !.flashed = flashed]

\* lines 584-614: the request is read and checked, the row is looked up
save_job_lookup(t) ==
    /\ frames[t].pc \in {"Idle", "Done"}
    /\ \E user_id \in Users, request \in SaveRequests :
         LET data == request.json
             adzuna_job_id == Get(data, "adzuna_job_id", None)
             title == Get(data, "title", None)
             adzuna_url == Get(data, "adzuna_url", None)
             existing_save == first(filter_by(SavedJob, user_id, adzuna_job_id))
             frame == [IdleRequest EXCEPT !.fn = "save_job", !.user_id = user_id,
                                          !.is_ajax = request.is_json]
             checked == [frame EXCEPT !.adzuna_job_id = adzuna_job_id,
                                      !.looked_up = TRUE,
                                      !.found = existing_save # None,
                                      !.was_saved = existing_save # None]
         IN frames' = [frames EXCEPT ![t] =
                IF ~request.is_json THEN Answer(frame, 415, "")
                ELSE IF ~Truthy(data) THEN Answer(frame, 400, "")
                ELSE IF ~(Truthy(adzuna_job_id) /\ Truthy(title) /\ Truthy(adzuna_url))
                THEN Answer(frame, 400, "")
                ELSE IF existing_save # None THEN Answer(checked, 409, "")
                ELSE [checked EXCEPT !.pc = "Commit"]]
    /\ UNCHANGED <<SavedJob, arg, ret, issued_expiry, orchVars>>

\* lines 616-631: db.session.add, commit; except: rollback
save_job_commit(t) ==
    LET frame == frames[t]
        saved == filter_by(SavedJob, frame.user_id, frame.adzuna_job_id) # {}
        at_commit == [frame EXCEPT !.was_saved = saved]
    IN /\ frame.pc = "Commit"
       /\ frame.fn = "save_job"
       /\ \/ /\ UniqueViolation(SavedJob, frame.user_id, frame.adzuna_job_id)
             /\ SavedJob' = SavedJob
             /\ frames' = [frames EXCEPT ![t] = Answer(at_commit, 500, "")]
          \/ /\ ~UniqueViolation(SavedJob, frame.user_id, frame.adzuna_job_id)
             /\ SavedJob.id_seq <= MaxRowId
             /\ SavedJob' =
                  [rows |-> SavedJob.rows \cup
                              {[id |-> SavedJob.id_seq, user_id |-> frame.user_id,
                                adzuna_job_id |-> frame.adzuna_job_id]},
                   id_seq |-> SavedJob.id_seq + 1]
             /\ frames' = [frames EXCEPT ![t] =
                             Answer([at_commit EXCEPT !.changed = TRUE], 200, "")]
          \/ \* the commit fails for another reason (the database is away)
             /\ SavedJob' = SavedJob
             /\ frames' = [frames EXCEPT ![t] = Answer(at_commit, 500, "")]
       /\ UNCHANGED <<arg, ret, issued_expiry, orchVars>>

\* lines 634-676: the request is read and checked, the row is looked up;
\* 696-704 when there is none
unsave_job_lookup(t) ==
    /\ frames[t].pc \in {"Idle", "Done"}
    /\ \E user_id \in Users, request \in UnsaveRequests :
         LET is_ajax == request.is_json
             data == request.json
             adzuna_job_id == IF is_ajax THEN Get(data, "adzuna_job_id", None)
                              ELSE Get(request.form, "adzuna_job_id", None)
             job_to_unsave == first(filter_by(SavedJob, user_id, adzuna_job_id))
             frame == [IdleRequest EXCEPT !.fn = "unsave_job", !.user_id = user_id,
                                          !.is_ajax = is_ajax]
             checked == [frame EXCEPT !.adzuna_job_id = adzuna_job_id,
                                      !.job_to_unsave = job_to_unsave,
                                      !.looked_up = TRUE,
                                      !.found = job_to_unsave # None,
                                      !.was_saved = job_to_unsave # None]
         IN frames' = [frames EXCEPT ![t] =
                IF is_ajax /\ ~Truthy(data) THEN Answer(frame, 400, "")
                ELSE IF ~is_ajax /\ ~Truthy(request.form) THEN Answer(frame, 415, "")
                ELSE IF ~Truthy(adzuna_job_id)
                THEN IF is_ajax THEN Answer(frame, 400, "")
                     ELSE Answer(frame, 302, "error")
                ELSE IF job_to_unsave # None THEN [checked EXCEPT !.pc = "Commit"]
                ELSE IF is_ajax THEN Answer(checked, 404, "")
                ELSE Answer(checked, 302, "warning")]
    /\ UNCHANGED <<SavedJob, arg, ret, issued_expiry, orchVars>>

\* lines 680-686: the commit succeeded
Removed(frame) ==
    IF frame.is_ajax THEN Answer(frame, 200, "") ELSE Answer(frame, 302, "success")

\* lines 687-695: except: rollback
NotRemoved(frame) ==
    IF frame.is_ajax THEN Answer(frame, 500, "") ELSE Answer(frame, 302, "error")

\* lines 677-695: db.session.delete, commit; except: rollback.  The DELETE
\* names the row by its primary key.  When another request removed the row
\* since the lookup the DELETE matches no row: the commit then succeeds or
\* raises, as the session and the isolation level decide.
unsave_job_commit(t) ==
    LET frame == frames[t]
        saved == filter_by(SavedJob, frame.user_id, frame.adzuna_job_id) # {}
        at_commit == [frame EXCEPT !.was_saved = saved]
    IN /\ frame.pc = "Commit"
       /\ frame.fn = "unsave_job"
       /\ \/ /\ frame.job_to_unsave \in SavedJob.rows
             /\ SavedJob' = [SavedJob EXCEPT !.rows = @ \ {frame.job_to_unsave}]
             /\ frames' = [frames EXCEPT ![t] =
                             Removed([at_commit EXCEPT !.changed = TRUE])]
          \/ /\ frame.job_to_unsave \notin SavedJob.rows
             /\ SavedJob' = SavedJob
             /\ \/ frames' = [frames EXCEPT ![t] = Removed(at_commit)]
                \/ frames' = [frames EXCEPT ![t] = NotRemoved(at_commit)]
          \/ \* the commit fails for another reason (the database is away)
             /\ SavedJob' = SavedJob
             /\ frames' = [frames EXCEPT ![t] = NotRemoved(at_commit)]
       /\ UNCHANGED <<arg, ret, issued_expiry, orchVars>>

\* the request threads of the server, no job saved yet
InitBookmarks ==
    /\ env = AllConfigured
    /\ OrchIdle
    /\ arg = None
    /\ ret = None
    /\ frames = [t \in BookmarkThreads |-> IdleRequest]
    /\ issued_expiry = None
    /\ SavedJob = EmptyTable

NextBookmarks ==
    \/ \E t \in DOMAIN frames : save_job_lookup(t)
    \/ \E t \in DOMAIN frames : save_job_commit(t)
    \/ \E t \in DOMAIN frames : unsave_job_lookup(t)
    \/ \E t \in DOMAIN frames : unsave_job_commit(t)

SpecBookmarks == InitBookmarks /\ [][NextBookmarks]_vars

-----------------------------------------------------------------------------
(* C23 *)

\* a user has at most one row per external job id
OnePerJob ==
    \A r1, r2 \in SavedJob.rows :
        r1.user_id = r2.user_id /\ r1.adzuna_job_id = r2.adzuna_job_id => r1 = r2

\* the requests that named a job, reached the database and were answered
Answered == {frames[t] : t \in {u \in DOMAIN frames : /\ frames[u].pc = "Done"
                                                      /\ frames[u].looked_up}}

\* C23 as stated: under every interleaving of save_job and unsave_job requests
\* a user has at most one saved job per external job id; a save of a job that
\* is already saved is answered 409 or 500, an unsave of a job that is not
\* saved is answered 404, and neither changes the table.
C23_BookmarkUniqueness ==
    /\ OnePerJob
    /\ \A f \in Answered :
        /\ f.fn = "save_job" /\ f.was_saved => f.status \in {409, 500} /\ ~f.changed
        /\ f.fn = "unsave_job" /\ ~f.was_saved => f.status = 404 /\ ~f.changed

\* C23 amended: under every interleaving a user has at most one saved job per
\* external job id.  A save that finds the job saved at its lookup is
\* answered 409, and one that finds it saved only at its commit 500.  An
\* unsave that finds no row at its lookup is answered 404 when it is a JSON
\* request and with a redirect and a warning when it is a form post; an unsave
\* whose job is no longer saved at its commit is answered as a success or as a
\* database error (200 or 500; for a form post a redirect flashing success or
\* error), never 404.  None of these requests changes the table.
C23_BookmarkUniquenessByLookup ==
    /\ OnePerJob
    /\ \A f \in Answered :
        /\ f.fn = "save_job" /\ f.found => f.status = 409 /\ ~f.changed
        /\ f.fn = "save_job" /\ ~f.found /\ f.was_saved => f.status = 500 /\ ~f.changed
        /\ f.fn = "unsave_job" /\ ~f.found =>
             /\ IF f.is_ajax THEN f.status = 404
                ELSE f.status = 302 /\ f.flashed = "warning"
             /\ ~f.changed
        /\ f.fn = "unsave_job" /\ f.found /\ ~f.was_saved =>
             /\ IF f.is_ajax THEN f.status \in {200, 500}
                ELSE f.status = 302 /\ f.flashed \in {"success", "error"}
             /\ ~f.changed

\* two concurrent saves of one job by one user: both lookups found nothing,
\* one commit stored the row and the other met the constraint
C23_Witness ==
    \E t1, t2 \in DOMAIN frames :
        /\ t1 # t2
        /\ frames[t1].fn = "save_job" /\ frames[t1].status = 200 /\ frames[t1].changed
        /\ frames[t2].fn = "save_job" /\ frames[t2].status = 500
        /\ frames[t2].looked_up /\ ~frames[t2].found /\ frames[t2].was_saved
        /\ frames[t1].user_id = frames[t2].user_id
        /\ frames[t1].adzuna_job_id = frames[t2].adzuna_job_id
        /\ Cardinality(filter_by(SavedJob, frames[t1].user_id,
                                 frames[t1].adzuna_job_id)) = 1

====
